---- MODULE Spec2Model ----
(***************************************************************************)
(* Model of src/main.cpp: a one-shot utility that logs in to a secrets     *)
(* broker with AppRole identifiers from the environment, loads             *)
(* config.json, overlays dynamically issued credentials on the database    *)
(* configuration and attempts one database connection.                     *)
(*                                                                         *)
(* Text is a sequence of one-character strings.  A JSON text is either     *)
(* syntactically invalid or the JSON value it denotes; the JSON parser,    *)
(* the broker client and the database driver are libraries outside the     *)
(* program, so their answers are inputs drawn from bounded sets.           *)
(***************************************************************************)
EXTENDS Integers, Sequences, FiniteSets, TLC

VARIABLES
  roleId,          \* getenv("APPROLE_ROLE_ID"): [null, s]
  secretId,        \* getenv("APPROLE_SECRET_ID"): [null, s]
  configFile,      \* config.json on disk: [exists, raw]
  pc,              \* position of main
  authenticated,   \* vaultClient.is_authenticated()
  databaseConfig,  \* the DatabaseConfig object of main line 81
  secretResponse,  \* [asked, response]: what generateCredentials answered
  exception,       \* what() of the exception in flight, "" when none
  connections,     \* connection strings handed to pqxx::connection
  out,             \* lines written to std::cout
  term,            \* how the process ended: none, exit, return, abort
  exitCode,        \* exit status once term # "none"
  calls            \* the I/O operations performed, in order

vars == <<roleId, secretId, configFile, pc, authenticated, databaseConfig,
          secretResponse, exception, connections, out, term, exitCode, calls>>

---------------------------------------------------------------------------
(* Bounds of the input space *)

MaxLen == 1

Alphabet == {"a", "b"}

Strs == UNION {[1..n -> Alphabet] : n \in 0..MaxLen}

\* port values of well-formed files; all lie within the range of int
Ports == {-1, 0, 9, 10, 5432, 65535}

SecretRoles == {<<"r">>}

---------------------------------------------------------------------------
(* JSON values (nlohmann::json) *)

JNull == [t |-> "null"]
JInt(n) == [t |-> "int", n |-> n]
\* a number with integer part n and a non-zero fractional part
JFloat(n) == [t |-> "float", n |-> n]
JBool(b) == [t |-> "bool", b |-> b]
JStr(s) == [t |-> "string", s |-> s]
JArr == [t |-> "array"]
JObj(m) == [t |-> "object", m |-> m]

\* JSON text: invalid, or the text of value v
BadText == [valid |-> FALSE]
TextOf(v) == [valid |-> TRUE, doc |-> v]

Ok(v) == [ok |-> TRUE, val |-> v]
Throw(e) == [ok |-> FALSE, err |-> e]

\* nlohmann::json::parse
parse(raw) == IF raw.valid THEN Ok(raw.doc) ELSE Throw("json.exception.parse_error")

\* basic_json::operator[](key) on a non-const value: null becomes an empty
\* object, a missing key is inserted as null, any other type throws
subscript(j, key) ==
  CASE j.t = "null" -> Ok(JNull)
    [] j.t = "object" -> IF key \in DOMAIN j.m THEN Ok(j.m[key]) ELSE Ok(JNull)
    [] OTHER -> Throw("json.exception.type_error")

\* basic_json::at(key) const
at(j, key) ==
  CASE j.t = "object" -> IF key \in DOMAIN j.m THEN Ok(j.m[key])
                         ELSE Throw("json.exception.out_of_range")
    [] OTHER -> Throw("json.exception.type_error")

\* conversion of a JSON value to int: numbers and booleans are cast
get_int(j) ==
  CASE j.t = "int" -> Ok(j.n)
    [] j.t = "float" -> Ok(j.n)
    [] j.t = "bool" -> Ok(IF j.b THEN 1 ELSE 0)
    [] OTHER -> Throw("json.exception.type_error")

\* conversion of a JSON value to std::string
get_string(j) ==
  IF j.t = "string" THEN Ok(j.s) ELSE Throw("json.exception.type_error")

---------------------------------------------------------------------------
(* DatabaseConfig *)

\* a value-initialised DatabaseConfig
EmptyConfig ==
  [port |-> 0, host |-> <<>>, database |-> <<>>, secretRole |-> <<>>,
   username |-> <<>>, password |-> <<>>]

\* j.at(key).get_to(field) for an int field
at_int(j, key) == LET a == at(j, key) IN IF a.ok THEN get_int(a.val) ELSE a

\* j.at(key).get_to(field) for a string field
at_string(j, key) == LET a == at(j, key) IN IF a.ok THEN get_string(a.val) ELSE a

from_json(j) ==
  LET p == at_int(j, "port")
      h == at_string(j, "host")
      d == at_string(j, "database")
      r == at_string(j, "secret_role")
  IN  IF ~p.ok THEN p
      ELSE IF ~h.ok THEN h
      ELSE IF ~d.ok THEN d
      ELSE IF ~r.ok THEN r
      ELSE Ok([EmptyConfig EXCEPT !.port = p.val, !.host = h.val,
                                  !.database = d.val, !.secretRole = r.val])

\* std::ifstream + istreambuf_iterator: a missing file reads as empty text,
\* which is not JSON
readFile(file) == IF file.exists THEN file.raw ELSE BadText

getDatabaseConfiguration(file) ==
  LET doc == parse(readFile(file))
      db == IF doc.ok THEN subscript(doc.val, "database") ELSE doc
  IN  IF db.ok THEN from_json(db.val) ELSE db

\* credentials[key] converted to std::string
credential(credentials, key) ==
  IF credentials.ok
  THEN LET e == subscript(credentials.val, key)
       IN  IF e.ok THEN get_string(e.val) ELSE e
  ELSE credentials

\* withSecrets lines 21-25, taken when the response holds a value: the object
\* after the statements that ran and the exception that ended them, "" when
\* the return was reached.  username is assigned before password is converted.
overlay(cfg, raw) ==
  LET doc == parse(raw)
      credentials == IF doc.ok THEN subscript(doc.val, "data") ELSE doc
      u == credential(credentials, "username")
      p == credential(credentials, "password")
  IN  IF ~u.ok THEN [cfg |-> cfg, err |-> u.err]
      ELSE IF ~p.ok
           THEN [cfg |-> [cfg EXCEPT !.username = u.val], err |-> p.err]
           ELSE [cfg |-> [cfg EXCEPT !.username = u.val, !.password = p.val],
                 err |-> ""]

\* mutant: value() taken without testing the optional
withSecrets_unchecked(cfg, response) ==
  IF response.some THEN overlay(cfg, response.raw)
  ELSE [cfg |-> cfg, err |-> "bad optional access"]

\* DatabaseConfig::withSecrets: the object after the call and the exception
\* it left, "" when it returned.  response is the std::optional of
\* generateCredentials: [some |-> FALSE] or [some |-> TRUE, raw |-> text]
withSecrets(cfg, response) ==
  IF response.some THEN overlay(cfg, response.raw)
  ELSE [cfg |-> cfg, err |-> ""]

Digit == <<"0", "1", "2", "3", "4", "5", "6", "7", "8", "9">>

RECURSIVE NatToText(_)
NatToText(n) ==
  IF n < 10 THEN <<Digit[n + 1]>>
  ELSE NatToText(n \div 10) \o <<Digit[(n % 10) + 1]>>

\* std::ostream << int in the classic locale
IntToText(n) == IF n < 0 THEN <<"-">> \o NatToText(-n) ELSE NatToText(n)

\* mutant: username and password streamed in each other's place
connectionString_swapped(cfg) ==
  <<"h", "o", "s", "t", "=">> \o cfg.host \o <<" ">>
  \o <<"p", "o", "r", "t", "=">> \o IntToText(cfg.port) \o <<" ">>
  \o <<"u", "s", "e", "r", "=">> \o cfg.password \o <<" ">>
  \o <<"p", "a", "s", "s", "w", "o", "r", "d", "=">> \o cfg.username \o <<" ">>
  \o <<"d", "b", "n", "a", "m", "e", "=">> \o cfg.database

connectionString(cfg) ==
  <<"h", "o", "s", "t", "=">> \o cfg.host \o <<" ">>
  \o <<"p", "o", "r", "t", "=">> \o IntToText(cfg.port) \o <<" ">>
  \o <<"u", "s", "e", "r", "=">> \o cfg.username \o <<" ">>
  \o <<"p", "a", "s", "s", "w", "o", "r", "d", "=">> \o cfg.password \o <<" ">>
  \o <<"d", "b", "n", "a", "m", "e", "=">> \o cfg.database

---------------------------------------------------------------------------
(* The environment the program starts in *)

Null == [null |-> TRUE]
Env(s) == [null |-> FALSE, s |-> s]

EnvValues == {Null, Env(<<"i", "d">>)}

DatabaseObject(p, h, d, r) ==
  JObj([k \in {"port", "host", "database", "secret_role"} |->
          CASE k = "port" -> p
            [] k = "host" -> h
            [] k = "database" -> d
            [] OTHER -> r])

ConfigDoc(db) == JObj([k \in {"database"} |-> db])

WellFormedDocs ==
  {ConfigDoc(DatabaseObject(JInt(p), JStr(h), JStr(d), JStr(r))) :
     p \in Ports, h \in Strs, d \in Strs, r \in SecretRoles}

Without(obj, key) == JObj([k \in (DOMAIN obj.m) \ {key} |-> obj.m[k]])

SampleDb == DatabaseObject(JInt(5432), JStr(<<"a">>), JStr(<<"b">>), JStr(<<"r">>))

IllFormedDocs ==
  {JNull, JArr, JObj(<<>>), ConfigDoc(JArr), ConfigDoc(JStr(<<"a">>))}
  \cup {ConfigDoc(Without(SampleDb, k)) : k \in {"port", "host", "database", "secret_role"}}
  \cup {ConfigDoc(DatabaseObject(p, JStr(<<"a">>), JStr(<<"b">>), JStr(<<"r">>))) :
          p \in {JStr(<<"a">>), JFloat(5432), JBool(TRUE), JNull}}
  \cup {ConfigDoc(DatabaseObject(JInt(5432), JInt(7), JStr(<<"b">>), JStr(<<"r">>))),
        ConfigDoc(DatabaseObject(JInt(5432), JStr(<<"a">>), JNull, JStr(<<"r">>))),
        ConfigDoc(DatabaseObject(JInt(5432), JStr(<<"a">>), JStr(<<"b">>), JArr))}

ConfigFiles ==
  {[exists |-> FALSE], [exists |-> TRUE, raw |-> BadText]}
  \cup {[exists |-> TRUE, raw |-> TextOf(v)] : v \in WellFormedDocs \cup IllFormedDocs}

DataObject(u, p) ==
  JObj([k \in {"username", "password"} |-> IF k = "username" THEN u ELSE p])

ResponseDoc(data) == JObj([k \in {"data"} |-> data])

None == [some |-> FALSE]
Some(raw) == [some |-> TRUE, raw |-> raw]

\* the answers of Vault::Database::generateCredentials
SecretResponses ==
  {None, Some(BadText)}
  \cup {Some(TextOf(ResponseDoc(DataObject(JStr(u), JStr(p))))) : u \in Strs, p \in Strs}
  \cup {Some(TextOf(v)) :
          v \in {JNull, JArr, JObj(<<>>), ResponseDoc(JArr),
                 ResponseDoc(Without(DataObject(JStr(<<"a">>), JStr(<<"b">>)), "password")),
                 ResponseDoc(Without(DataObject(JStr(<<"a">>), JStr(<<"b">>)), "username")),
                 ResponseDoc(DataObject(JStr(<<"a">>), JInt(5))),
                 ResponseDoc(DataObject(JNull, JStr(<<"b">>)))}}

---------------------------------------------------------------------------
(* main *)

Diagnostic == "APPROLE_ROLE_ID and APPROLE_SECRET_ID environment variables must be set"

Init ==
  /\ roleId \in EnvValues
  /\ secretId \in EnvValues
  /\ configFile \in ConfigFiles
  /\ pc = "getVaultClient"
  /\ authenticated = FALSE
  /\ databaseConfig = EmptyConfig
  /\ secretResponse = [asked |-> FALSE]
  /\ exception = ""
  /\ connections = <<>>
  /\ out = <<>>
  /\ term = "none"
  /\ exitCode = 0
  /\ calls = <<>>

\* the precondition gate of getVaultClient
gateFails(r, s) == r.null /\ s.null

\* mutant: the diagnostic is printed but exit is not called
ExitGate_noExit ==
  /\ out' = Append(out, Diagnostic)
  /\ \E a \in BOOLEAN : authenticated' = a
  /\ pc' = "is_authenticated"
  /\ calls' = calls \o <<"getenv", "login">>
  /\ UNCHANGED <<term, exitCode>>

\* exit(-1): the status seen by the parent is the low byte
ExitGate ==
  /\ out' = Append(out, Diagnostic)
  /\ term' = "exit"
  /\ exitCode' = (-1) % 256
  /\ pc' = "done"
  /\ calls' = Append(calls, "getenv")
  /\ UNCHANGED authenticated

\* Vault::RoleId{roleId} / Vault::SecretId{secretId} build a std::string from
\* a null pointer: undefined behaviour.  The build either dies there (an
\* uncaught std::logic_error or a fault, ending in a signal) or goes on
\* with an unspecified value.
NullStrategyAborts ==
  /\ term' = "abort"
  /\ exitCode' = 134
  /\ pc' = "done"
  /\ calls' = Append(calls, "getenv")
  /\ UNCHANGED <<out, authenticated>>

\* Vault::Client{config, appRoleStrategy} logs in to the broker
Login ==
  /\ \E a \in BOOLEAN : authenticated' = a
  /\ pc' = "is_authenticated"
  /\ calls' = calls \o <<"getenv", "login">>
  /\ UNCHANGED <<out, term, exitCode>>

getVaultClient ==
  /\ pc = "getVaultClient"
  /\ IF gateFails(roleId, secretId) THEN ExitGate
     ELSE IF roleId.null \/ secretId.null THEN NullStrategyAborts \/ Login
     ELSE Login
  /\ UNCHANGED <<roleId, secretId, configFile, databaseConfig, secretResponse,
                 exception, connections>>

\* mutant: the else branch ends the process with a failure status
notAuthenticated_fails ==
  /\ pc = "is_authenticated"
  /\ ~authenticated
  /\ out' = Append(out, "Unable to authenticate to Vault")
  /\ term' = "exit"
  /\ exitCode' = 1
  /\ pc' = "done"
  /\ UNCHANGED <<roleId, secretId, configFile, authenticated, databaseConfig,
                 secretResponse, exception, connections, calls>>

\* main lines 79, 90-92: the else branch, then main returns
notAuthenticated ==
  /\ pc = "is_authenticated"
  /\ ~authenticated
  /\ out' = Append(out, "Unable to authenticate to Vault")
  /\ term' = "return"
  /\ exitCode' = 0
  /\ pc' = "done"
  /\ UNCHANGED <<roleId, secretId, configFile, authenticated, databaseConfig,
                 secretResponse, exception, connections, calls>>

\* main line 81, first call
loadConfiguration ==
  /\ pc = "is_authenticated"
  /\ authenticated
  /\ LET r == getDatabaseConfiguration(configFile)
     IN  IF r.ok
         THEN /\ databaseConfig' = r.val
              /\ exception' = ""
              /\ pc' = "withSecrets"
         ELSE /\ databaseConfig' = databaseConfig
              /\ exception' = r.err
              /\ pc' = "catch"
  /\ calls' = Append(calls, "read_config")
  /\ UNCHANGED <<roleId, secretId, configFile, authenticated, secretResponse,
                 connections, out, term, exitCode>>

\* mutant: an exception of withSecrets is swallowed and main goes on
enrich_swallowed ==
  /\ pc = "withSecrets"
  /\ \E response \in SecretResponses :
       LET r == withSecrets(databaseConfig, response)
       IN  /\ secretResponse' = [asked |-> TRUE, response |-> response]
           /\ databaseConfig' = r.cfg
           /\ exception' = ""
           /\ pc' = "connect"
  /\ calls' = Append(calls, "generate_credentials")
  /\ UNCHANGED <<roleId, secretId, configFile, authenticated, connections,
                 out, term, exitCode>>

\* main line 81, second call
enrich ==
  /\ pc = "withSecrets"
  /\ \E response \in SecretResponses :
       LET r == withSecrets(databaseConfig, response)
       IN  /\ secretResponse' = [asked |-> TRUE, response |-> response]
           /\ databaseConfig' = r.cfg
           /\ exception' = r.err
           /\ pc' = IF r.err = "" THEN "connect" ELSE "catch"
  /\ calls' = Append(calls, "generate_credentials")
  /\ UNCHANGED <<roleId, secretId, configFile, authenticated, connections,
                 out, term, exitCode>>

\* main lines 82-86: pqxx::connection either throws or yields a connection
\* that reports itself open or not
connect ==
  /\ pc = "connect"
  /\ connections' = Append(connections, connectionString(databaseConfig))
  /\ calls' = Append(calls, "connect")
  /\ \/ /\ exception' = "pqxx::broken_connection"
        /\ pc' = "catch"
        /\ UNCHANGED <<out, term, exitCode>>
     \/ /\ \E open \in BOOLEAN :
             out' = Append(out, IF open THEN "Connected" ELSE "Could not connect")
        /\ term' = "return"
        /\ exitCode' = 0
        /\ pc' = "done"
        /\ UNCHANGED exception
  /\ UNCHANGED <<roleId, secretId, configFile, authenticated, databaseConfig,
                 secretResponse>>

\* mutant: no handler, the exception leaves main and the process aborts
catch_uncaught ==
  /\ pc = "catch"
  /\ term' = "abort"
  /\ exitCode' = 134
  /\ pc' = "done"
  /\ UNCHANGED <<roleId, secretId, configFile, authenticated, databaseConfig,
                 secretResponse, exception, connections, calls, out>>

\* mutant: the handler prints e.what() and the try block is run again
catch_retry ==
  /\ pc = "catch"
  /\ out' = Append(out, exception)
  /\ pc' = "is_authenticated"
  /\ UNCHANGED <<roleId, secretId, configFile, authenticated, databaseConfig,
                 secretResponse, exception, connections, calls, term, exitCode>>

\* main lines 87-89: the handler prints e.what(), then main returns
catch ==
  /\ pc = "catch"
  /\ out' = Append(out, exception)
  /\ term' = "return"
  /\ exitCode' = 0
  /\ pc' = "done"
  /\ UNCHANGED <<roleId, secretId, configFile, authenticated, databaseConfig,
                 secretResponse, exception, connections, calls>>

Next ==
  \/ getVaultClient
  \/ notAuthenticated
  \/ loadConfiguration
  \/ enrich
  \/ connect
  \/ catch

Spec == Init /\ [][Next]_vars

---------------------------------------------------------------------------
(* Properties *)

Called(c) == \E i \in DOMAIN calls : calls[i] = c

Count(c) == Cardinality({i \in DOMAIN calls : calls[i] = c})

Printed(line) == \E i \in DOMAIN out : out[i] = line

BothUnset == roleId.null /\ secretId.null

\* the stages in the order main runs them
Pipeline == <<"getenv", "login", "read_config", "generate_credentials", "connect">>

IsPrefix(s, t) == Len(s) <= Len(t) /\ s = SubSeq(t, 1, Len(s))

\* the object getDatabaseConfiguration handed to withSecrets
Loaded == getDatabaseConfiguration(configFile)

\* a decimal numeral: digits without a leading zero, or such digits (not
\* zero) after a minus sign
IsNumeral(t) ==
  LET body == IF Len(t) > 0 /\ t[1] = "-" THEN Tail(t) ELSE t
  IN  /\ Len(body) > 0
      /\ \A i \in DOMAIN body : \E d \in DOMAIN Digit : Digit[d] = body[i]
      /\ (Len(body) > 1 => body[1] # "0")
      /\ (Len(t) > Len(body) => body # <<"0">>)

DigitValue(c) == (CHOOSE d \in DOMAIN Digit : Digit[d] = c) - 1

RECURSIVE DigitsValue(_)
DigitsValue(t) ==
  IF Len(t) = 0 THEN 0
  ELSE 10 * DigitsValue(SubSeq(t, 1, Len(t) - 1)) + DigitValue(t[Len(t)])

NumeralValue(t) == IF t[1] = "-" THEN 0 - DigitsValue(Tail(t)) ELSE DigitsValue(t)

\* c reads host=<h> port=<p> user=<u> password=<pw> dbname=<d>, with <p> the
\* decimal numeral of p
HasForm(c, h, p, u, pw, d) ==
  LET pre == <<"h", "o", "s", "t", "=">> \o h \o <<" ", "p", "o", "r", "t", "=">>
      suf == <<" ", "u", "s", "e", "r", "=">> \o u
             \o <<" ", "p", "a", "s", "s", "w", "o", "r", "d", "=">> \o pw
             \o <<" ", "d", "b", "n", "a", "m", "e", "=">> \o d
      mid == SubSeq(c, Len(pre) + 1, Len(c) - Len(suf))
  IN  /\ Len(c) > Len(pre) + Len(suf)
      /\ SubSeq(c, 1, Len(pre)) = pre
      /\ SubSeq(c, Len(c) - Len(suf) + 1, Len(c)) = suf
      /\ IsNumeral(mid)
      /\ NumeralValue(mid) = p

\* C1: with both AppRole variables unset, the run is either not yet started
\* or has ended at the gate of getVaultClient: the diagnostic is the only
\* output, the process has exited with a non-zero status, and no login, no
\* config read, no credential request and no connection attempt was made.
C1_BothUnsetEndsAtGate ==
  BothUnset =>
    \/ /\ pc = "getVaultClient"
       /\ calls = <<>> /\ out = <<>> /\ term = "none"
    \/ /\ pc = "done"
       /\ term = "exit" /\ exitCode # 0
       /\ out = <<Diagnostic>>
       /\ calls = <<"getenv">>
       /\ connections = <<>> /\ ~secretResponse.asked

C1_Witness == BothUnset /\ pc = "done"

\* C2: whenever at least one of the two AppRole variables is unset, no
\* login is ever attempted and the finished run has ended at the gate with
\* the diagnostic printed.
C2_AnyUnsetEndsAtGate ==
  (roleId.null \/ secretId.null) =>
    /\ ~Called("login")
    /\ pc = "done" => (term = "exit" /\ out = <<Diagnostic>>)

\* C3: after a login that left the client unauthenticated nothing further is
\* read, requested or connected, and the finished run has printed only
\* "Unable to authenticate to Vault" and returned from main with status 0.
C3_AuthFailureStops ==
  (Called("login") /\ ~authenticated) =>
    /\ calls = <<"getenv", "login">>
    /\ connections = <<>> /\ ~secretResponse.asked
    /\ databaseConfig = EmptyConfig
    /\ pc = "done" =>
         /\ out = <<"Unable to authenticate to Vault">>
         /\ term = "return" /\ exitCode = 0

C3_Witness == Called("login") /\ ~authenticated /\ pc = "done"

\* C4: when generateCredentials yields no response, withSecrets leaves no
\* exception and the object is the one that was loaded, with empty username
\* and password; main goes on to the connection attempt, handing the driver
\* the string built from that object.
C4_NoResponseLeavesConfig ==
  (secretResponse.asked /\ secretResponse.response = None) =>
    /\ Loaded.ok
    /\ databaseConfig = Loaded.val
    /\ databaseConfig.username = <<>> /\ databaseConfig.password = <<>>
    /\ \/ pc = "connect" /\ exception = "" /\ connections = <<>>
       \/ /\ Called("connect")
          /\ Len(connections) = 1
          /\ HasForm(connections[1], Loaded.val.host, Loaded.val.port,
                     <<>>, <<>>, Loaded.val.database)

C4_Witness ==
  secretResponse.asked /\ secretResponse.response = None /\ Called("connect")

WellFormedConfig ==
  /\ configFile.exists
  /\ configFile.raw.valid
  /\ configFile.raw.doc \in WellFormedDocs

WellFormedResponse ==
  /\ secretResponse.asked
  /\ secretResponse.response.some
  /\ secretResponse.response.raw.valid
  /\ secretResponse.response.raw.doc \in
       {ResponseDoc(DataObject(JStr(u), JStr(p))) : u \in Strs, p \in Strs}

BrokenConfig ==
  \/ ~configFile.exists
  \/ ~configFile.raw.valid
  \/ configFile.raw.doc \in
       {ConfigDoc(Without(SampleDb, k)) : k \in {"port", "host", "database", "secret_role"}}

\* the message of the error that loading a broken config file raises
BrokenConfigMessage ==
  IF configFile.exists /\ configFile.raw.valid
  THEN "json.exception.out_of_range"
  ELSE "json.exception.parse_error"

\* C6 as stated: a finished run over a broken config file has printed the
\* parser's message and returned with status 0.
C6_BrokenConfigAlwaysReported ==
  (BrokenConfig /\ pc = "done") =>
    /\ out = <<BrokenConfigMessage>>
    /\ term = "return" /\ exitCode = 0

\* C6 amended: a finished run in which the client was authenticated and the
\* config file is broken has printed the parser's message, attempted no
\* connection and returned with status 0; a finished run whose connection
\* attempt raised has printed that error's message and returned with status 0.
C6_LoadAndConnectErrorsCaught ==
  /\ (BrokenConfig /\ authenticated /\ pc = "done") =>
       /\ out = <<BrokenConfigMessage>>
       /\ connections = <<>>
       /\ term = "return" /\ exitCode = 0
  /\ (exception = "pqxx::broken_connection" /\ pc = "done") =>
       /\ out = <<"pqxx::broken_connection">>
       /\ term = "return" /\ exitCode = 0

C6_Witness ==
  \/ BrokenConfig /\ authenticated /\ pc = "done" /\ ~configFile.exists
  \/ exception = "pqxx::broken_connection" /\ pc = "done"

\* C7: a finished run has a non-zero exit status exactly when both AppRole
\* variables are unset.
C7_NonZeroIffBothUnset ==
  pc = "done" => (exitCode # 0 <=> BothUnset)

\* C8 as stated: each stage runs at most once and in the order config read,
\* environment check and login, credential request, connection attempt.
C8_ConfigReadFirst ==
  /\ \A c \in {"getenv", "login", "read_config", "generate_credentials", "connect"} :
       Count(c) <= 1
  /\ \A i, j \in DOMAIN calls :
       (calls[i] = "read_config" /\ calls[j] \in {"getenv", "login"}) => i < j
  /\ \A i, j \in DOMAIN calls :
       (calls[i] = "generate_credentials" /\ calls[j] = "connect") => i < j

\* C8 amended: the operations performed are always an initial part of:
\* environment check, login, config read, credential request, connection
\* attempt; so each runs at most once and the environment check and the
\* login precede the config read.
C8_BootstrapThenConfig == IsPrefix(calls, Pipeline)

C8_Witness == calls = Pipeline

\* C9: at most one connection attempt is made, and only after the gate
\* passed, the client reported authenticated, and getDatabaseConfiguration
\* and withSecrets both returned without raising; with no attempt made,
\* neither "Connected" nor "Could not connect" is printed.
C9_SingleGuardedConnection ==
  /\ Len(connections) <= 1
  /\ Count("connect") = Len(connections)
  /\ Called("connect") =>
       /\ ~BothUnset
       /\ authenticated
       /\ \E i, j, k \in DOMAIN calls :
            /\ i < j /\ j < k
            /\ calls[i] = "read_config"
            /\ calls[j] = "generate_credentials"
            /\ calls[k] = "connect"
       /\ Loaded.ok
       /\ secretResponse.asked
       /\ withSecrets(Loaded.val, secretResponse.response).err = ""
  /\ ~Called("connect") =>
       (~Printed("Connected") /\ ~Printed("Could not connect"))

C9_Witness ==
  /\ Called("connect") /\ Printed("Connected")
  /\ secretResponse.response.some

\* C10: once withSecrets has been called, username and password are either
\* both the values of the response or both the values they had before the
\* call.
C10_CredentialsAtomic ==
  secretResponse.asked =>
    \/ /\ databaseConfig.username = Loaded.val.username
       /\ databaseConfig.password = Loaded.val.password
    \/ /\ WellFormedResponse
       /\ databaseConfig.username = secretResponse.response.raw.doc.m["data"].m["username"].s
       /\ databaseConfig.password = secretResponse.response.raw.doc.m["data"].m["password"].s

====
